---- MODULE Spec2Model ----
(***************************************************************************)
(* protosign: the keychain refresh engine (keychain/keychain.go, the       *)
(* FileProvider and the S3Provider), and the signer / validator pair       *)
(* (signer.go, validator.go) with the Bearer token carrier.                *)
(*                                                                         *)
(* Strings the code takes apart (entry names, header values) are sequences *)
(* of tokens, so that HasSuffix / TrimSuffix / TrimPrefix and the Bearer   *)
(* pattern are computed and not assumed.                                   *)
(***************************************************************************)
EXTENDS Integers, Sequences, FiniteSets, TLC

VARIABLES
    kind,       \* "file" (FileProvider) or "s3" (S3Provider)
    source,     \* the Key Source: entry name -> "absent" | "unreadable" | bytes
    dirOK,      \* whether enumerating the Key Source succeeds
    changes,    \* number of changes made to the Key Source so far
    pc,         \* position of the Run goroutine
    next,       \* the channel `next` (capacity NextCap)
    tickerC,    \* number of ticks waiting in ticker.C (capacity 1)
    ticking,    \* the ticker has been created
    cancelled,  \* ctx.Done() is closed
    runErr,     \* what Run returned
    files,      \* update: the listing being walked
    idx,        \* update: index of the next entry of the listing
    newVal,     \* update: the mapping under construction
    data,       \* p.data: the installed mapping
    visible,    \* keys of p.data whose stores have reached a reader goroutine
    prev,       \* the mapping installed before the current one
    got,        \* result of the latest GetPublicKey call
    refreshed,  \* history: Run has started a refresh cycle
    now,        \* the wall clock, in milliseconds
    signer,     \* the Signer: Issuer, PrivateRSAKey, TTL, TokenSetter
    onErrorSet, \* the SignatureValidator has an OnError handler
    req,        \* the HTTP request being signed, carried and validated
    signErr,    \* what the latest Sign returned
    signed,     \* history: the latest token Sign made, when, and with which TTL
    resp        \* what the middleware did with the request

kvars == <<kind, source, dirOK, changes, pc, next, tickerC, ticking, cancelled,
           runErr, files, idx, newVal, data, visible, prev, got, refreshed>>

hvars == <<now, signer, onErrorSet, req, signErr, signed, resp>>

vars == <<kvars, hvars>>

----------------------------------------------------------------------------
(* Bounds of the model *)

MaxSourceChanges == 1

MaxHeaderValues == 2

MaxElapsed == 2000

(* The clock when the model starts, in milliseconds since the epoch. *)
StartTime == 10000

(* Program constants *)

NextCap == 1

SFX == "_rsa_public.pem"

KeySuffix == <<SFX>>

----------------------------------------------------------------------------
(* strings.HasSuffix / TrimSuffix / HasPrefix / TrimPrefix on token sequences *)

HasSuffix(s, suffix) ==
    /\ Len(s) >= Len(suffix)
    /\ SubSeq(s, Len(s) - Len(suffix) + 1, Len(s)) = suffix

TrimSuffix(s, suffix) ==
    IF HasSuffix(s, suffix) THEN SubSeq(s, 1, Len(s) - Len(suffix)) ELSE s

HasPrefix(s, prefix) ==
    /\ Len(s) >= Len(prefix)
    /\ SubSeq(s, 1, Len(prefix)) = prefix

TrimPrefix(s, prefix) ==
    IF HasPrefix(s, prefix) THEN SubSeq(s, Len(prefix) + 1, Len(s)) ELSE s

----------------------------------------------------------------------------
(* The Key Source: a directory (FileProvider) or a bucket prefix (S3Provider) *)

Contents == {"k1", "k2"}

PathName == "keys"

EntryA == <<"a", SFX>>

EntryB == <<"b", SFX>>

EntryTxt == <<"not_a_key", ".txt">>

EntrySub == <<"sub", "/", "a", SFX>>

Entries == {EntryA, EntryB, EntryTxt, EntrySub}

(* Both listings come back in the lexical order of the names. *)
EntryOrder == <<EntryA, EntryB, EntryTxt, EntrySub>>

(* The Key Source when the keychain is built. *)
InitSources ==
    { [e \in Entries |-> "k1"],
      [e \in Entries |-> IF e = EntryB THEN "absent" ELSE "k1"] }

Present(e) == source[e] # "absent"

PresentEntries == SelectSeq(EntryOrder, Present)

(* The name ioutil.ReadDir reports for an entry: a file's own name, and for a
   file below a subdirectory the name of that subdirectory. *)
DirEntryName(e) ==
    IF \E i \in 1..Len(e) : e[i] = "/"
    THEN LET i == CHOOSE j \in 1..Len(e) :
                      e[j] = "/" /\ \A k \in 1..(j - 1) : e[k] # "/"
         IN  SubSeq(e, 1, i - 1)
    ELSE e

(* ioutil.ReadDir(p.Path) *)
ReadDir == [i \in 1..Len(PresentEntries) |-> DirEntryName(PresentEntries[i])]

(* ioutil.ReadFile(path.Join(p.Path, f.Name())): "error" for a directory, a
   file removed since the listing, or an unreadable one. *)
ReadFile(name) ==
    IF name \in Entries /\ source[name] \in Contents THEN source[name] ELSE "error"

(* pref := p.Path + "/" *)
Pref == <<PathName, "/">>

(* ListObjectsV2(Bucket, Prefix: pref): every key below the prefix. *)
ListObjectsV2 == [i \in 1..Len(PresentEntries) |-> Pref \o PresentEntries[i]]

(* GetObject + ioutil.ReadAll, under the context Run was given. *)
GetObject(key) ==
    LET e == TrimPrefix(key, Pref)
    IN  IF cancelled THEN "error"
        ELSE IF e \in Entries /\ source[e] \in Contents THEN source[e]
        ELSE "error"

(* The issuer an entry stands for. *)
FileKey(name) == TrimSuffix(name, KeySuffix)

S3Key(key) == TrimPrefix(TrimSuffix(key, KeySuffix), Pref)

----------------------------------------------------------------------------
(* Mappings issuer -> key bytes *)

EmptyMap == [i \in {} |-> "k1"]

Put(m, k, v) == [i \in DOMAIN m \cup {k} |-> IF i = k THEN v ELSE m[i]]

Issuers == {<<"a">>, <<"b">>, <<"not_a_key">>, <<"sub", "/", "a">>}

NoResult == [issuer |-> <<>>, val |-> "", ok |-> FALSE]

(* val, ok := k.data[issuer], read with no synchronisation against the store
   p.data = newVal: an entry is found when its stores have reached the reader. *)
Lookup(issuer) ==
    IF issuer \in visible
    THEN [issuer |-> issuer, val |-> data[issuer], ok |-> TRUE]
    ELSE [issuer |-> issuer, val |-> "", ok |-> FALSE]

GetPublicKey(issuer) ==
    /\ got' = Lookup(issuer)
    /\ UNCHANGED <<kind, source, dirOK, changes, pc, next, tickerC, ticking,
                   cancelled, runErr, files, idx, newVal, data, visible, prev,
                   refreshed, hvars>>

----------------------------------------------------------------------------
(* update: one refresh cycle, a listing and then one step per listed entry *)

updVars == <<files, idx, newVal>>

(* The listing call of update: whether it succeeded, and the names it gave. *)
List ==
    IF kind = "file"
    THEN [ok |-> dirOK, names |-> ReadDir]
    ELSE [ok |-> dirOK /\ ~cancelled, names |-> ListObjectsV2]

Matches(name) == HasSuffix(name, KeySuffix)

ReadEntry(name) == IF kind = "file" THEN ReadFile(name) ELSE GetObject(name)

KeyOf(name) == IF kind = "file" THEN FileKey(name) ELSE S3Key(name)

(* As ReturnErr, had update stored what it had read so far before returning. *)
ReturnErr_StoresPartial(e) ==
    /\ pc' = "returned"
    /\ runErr' = e
    /\ next' = <<>>
    /\ data' = newVal
    /\ prev' = data

(* As ReturnErr, had Run gone on to the next select instead of returning. *)
ReturnErr_KeepsRunning(e) ==
    /\ pc' = "select"
    /\ next' = <<>>
    /\ UNCHANGED <<runErr, data, prev>>

(* `return err` out of update and then out of Run; the deferred close(next) runs. *)
ReturnErr(e) ==
    /\ pc' = "returned"
    /\ runErr' = e
    /\ next' = <<>>
    /\ UNCHANGED <<data, prev>>

(* p.data = newVal; return nil. The store is a plain one, as are the stores
   that filled newVal: which of the new mapping's entries a concurrent reader
   already sees behind the new pointer is not determined. *)
Install ==
    /\ prev' = data
    /\ data' = newVal
    /\ visible' \in SUBSET (DOMAIN newVal)
    /\ pc' = "select"
    /\ UNCHANGED <<runErr, next>>

(* case <-next: the receive, and update up to its listing. *)
Run_recvNext ==
    /\ pc = "select"
    /\ Len(next) > 0
    /\ IF ~List.ok
       THEN /\ ReturnErr("list")
            /\ UNCHANGED updVars
       ELSE /\ next' = Tail(next)
            /\ files' = List.names
            /\ idx' = 1
            /\ newVal' = EmptyMap
            /\ pc' = "update"
            /\ UNCHANGED <<runErr, data, prev>>
    /\ visible' = DOMAIN data
    /\ refreshed' = TRUE
    /\ UNCHANGED <<kind, source, dirOK, changes, tickerC, ticking, cancelled, got, hvars>>

(* One iteration of update's loop over the listing. *)
update_entry ==
    /\ pc = "update"
    /\ idx <= Len(files)
    /\ IF ~Matches(files[idx])
       THEN /\ idx' = idx + 1
            /\ UNCHANGED <<pc, runErr, next, newVal, data, visible, prev>>
       ELSE IF ReadEntry(files[idx]) = "error"
       THEN /\ ReturnErr("read")
            /\ UNCHANGED <<idx, newVal, visible>>
       ELSE /\ newVal' = Put(newVal, KeyOf(files[idx]), ReadEntry(files[idx]))
            /\ idx' = idx + 1
            /\ UNCHANGED <<pc, runErr, next, data, visible, prev>>
    /\ UNCHANGED <<kind, source, dirOK, changes, tickerC, ticking, cancelled,
                   files, got, refreshed, hvars>>

(* The end of update's loop: the new mapping is installed. *)
update_install ==
    /\ pc = "update"
    /\ idx > Len(files)
    /\ Install
    /\ UNCHANGED <<kind, source, dirOK, changes, tickerC, ticking, cancelled,
                   files, idx, newVal, got, refreshed, hvars>>

----------------------------------------------------------------------------
(* Run: the refresh loop. A select locks its channels, so the stores the
   goroutine made before it have reached every reader once a case is taken. *)

(* Run up to its first select: next := make(chan bool, 1); next <- true;
   ticker := time.NewTicker(p.RefreshRate). The S3Provider first builds its
   client, which can fail. *)
Run_start(cfgOK) ==
    /\ pc = "idle"
    /\ IF kind = "s3" /\ ~cfgOK
       THEN /\ pc' = "returned"
            /\ runErr' = "config"
            /\ UNCHANGED <<next, ticking>>
       ELSE /\ next' = <<TRUE>>
            /\ ticking' = TRUE
            /\ pc' = "select"
            /\ UNCHANGED runErr
    /\ UNCHANGED <<kind, source, dirOK, changes, tickerC, cancelled, files, idx,
                   newVal, data, visible, prev, got, refreshed, hvars>>

(* case <-ctx.Done(): return nil *)
Run_done ==
    /\ pc = "select"
    /\ cancelled
    /\ pc' = "returned"
    /\ runErr' = "nil"
    /\ next' = <<>>
    /\ visible' = DOMAIN data
    /\ UNCHANGED <<kind, source, dirOK, changes, tickerC, ticking, cancelled,
                   files, idx, newVal, data, prev, got, refreshed, hvars>>

(* case <-ticker.C: the receive *)
Run_recvTick ==
    /\ pc = "select"
    /\ tickerC > 0
    /\ tickerC' = tickerC - 1
    /\ pc' = "send"
    /\ visible' = DOMAIN data
    /\ UNCHANGED <<kind, source, dirOK, changes, next, ticking, cancelled, runErr,
                   files, idx, newVal, data, prev, got, refreshed, hvars>>

(* next <- true, which waits while the channel is full *)
Run_sendNext ==
    /\ pc = "send"
    /\ Len(next) < NextCap
    /\ next' = Append(next, TRUE)
    /\ pc' = "select"
    /\ UNCHANGED <<kind, source, dirOK, changes, tickerC, ticking, cancelled,
                   runErr, files, idx, newVal, data, visible, prev, got, refreshed, hvars>>

RunStep ==
    \/ Run_done
    \/ Run_recvTick
    \/ Run_sendNext
    \/ Run_recvNext
    \/ update_entry
    \/ update_install

----------------------------------------------------------------------------
(* The environment of the keychain *)

(* The ticker delivers a tick; one that finds ticker.C full is dropped. *)
Tick ==
    /\ ticking
    /\ tickerC' = 1
    /\ UNCHANGED <<kind, source, dirOK, changes, pc, next, ticking, cancelled,
                   runErr, files, idx, newVal, data, visible, prev, got, refreshed, hvars>>

(* The owner of the context cancels it. *)
Cancel ==
    /\ ~cancelled
    /\ cancelled' = TRUE
    /\ UNCHANGED <<kind, source, dirOK, changes, pc, next, tickerC, ticking,
                   runErr, files, idx, newVal, data, visible, prev, got, refreshed, hvars>>

(* A key entry is written, removed or made unreadable. *)
ChangeSource(e, v) ==
    /\ changes < MaxSourceChanges
    /\ v # source[e]
    /\ source' = [source EXCEPT ![e] = v]
    /\ changes' = changes + 1
    /\ UNCHANGED <<kind, dirOK, pc, next, tickerC, ticking, cancelled, runErr,
                   files, idx, newVal, data, visible, prev, got, refreshed, hvars>>

(* Enumerating the Key Source starts or stops failing. *)
ChangeDir ==
    /\ changes < MaxSourceChanges
    /\ dirOK' = ~dirOK
    /\ changes' = changes + 1
    /\ UNCHANGED <<kind, source, pc, next, tickerC, ticking, cancelled, runErr,
                   files, idx, newVal, data, visible, prev, got, refreshed, hvars>>

(* The stores of the last refresh reach the reader goroutines. *)
Propagate ==
    /\ visible # DOMAIN data
    /\ visible' = DOMAIN data
    /\ UNCHANGED <<kind, source, dirOK, changes, pc, next, tickerC, ticking,
                   cancelled, runErr, files, idx, newVal, data, prev, got, refreshed, hvars>>

----------------------------------------------------------------------------
(* Requests, tokens and keys of the signer / validator pair *)

StatusUnauthorized == 401

MsPerSecond == 1000

Methods == {"GET", "POST"}

(* "/%FF" arrives as a path holding the byte 0xFF, which is not UTF-8. *)
BadUtf8Path == "/<0xFF>"

CoercedPath == "/<U+FFFD>"

Paths == {"/x", "/y", BadUtf8Path}

(* SignatureValidator.Subject *)
Subject == "service_2"

Subjects == {"service_2", "service_3"}

(* encoding/json writes a string as valid UTF-8: invalid bytes become U+FFFD. *)
JSONString(str) == IF str = BadUtf8Path THEN CoercedPath ELSE str

(* RSA key pairs: the PEM of a private key, and the PEM of its public key. *)
PrivateKeys == {"priv1", "priv2"}

PublicOf(priv) ==
    IF priv = "priv1" THEN "k1" ELSE IF priv = "priv2" THEN "k2" ELSE "nokey"

(* The PEM of an RSA private key whose modulus is too short to hold an RS256
   signature: it parses, and signing with it fails. *)
ShortKey == "short"

ParsesAsPrivateKey(pem) == pem \in PrivateKeys \cup {ShortKey}

(* rsa.SignPKCS1v15 under the key succeeds. *)
CanSign(priv) == priv \in PrivateKeys

ParsesAsPublicKey(pem) == pem \in {"k1", "k2"}

NoClaims == [mtd |-> "", pth |-> "", iss |-> <<>>, sub |-> "", exp |-> 0]

NoSig == [by |-> "", alg |-> "", claims |-> NoClaims]

EmptyToken == [form |-> "empty", alg |-> "", claims |-> NoClaims, sig |-> NoSig]

GarbageToken == [form |-> "garbage", alg |-> "", claims |-> NoClaims, sig |-> NoSig]

(* jwt.NewWithClaims(method, claims).SignedString(key): header.claims.signature,
   the signature made with the private key over header and claims. *)
SignedString(alg, claims, priv) ==
    [form |-> "jwt", alg |-> alg, claims |-> claims,
     sig |-> [by |-> priv, alg |-> alg, claims |-> claims]]

(* rsa.VerifyPKCS1v15 of the token's signature under a public key. *)
SignatureVerifies(tkn, pub) ==
    /\ PublicOf(tkn.sig.by) = pub
    /\ tkn.sig.alg = tkn.alg
    /\ tkn.sig.claims = tkn.claims

(* A header value: the text before the token, and the token. *)
Value(pre, tkn) == [pre |-> pre, tok |-> tkn]

EmptyValue == Value(<<>>, EmptyToken)

BearerPrefix == <<"Bearer", " ">>

NoSign == [at |-> 0, ttl |-> 0, tkn |-> EmptyToken]

NoResp ==
    [handled |-> FALSE, nextCalls |-> 0, onError |-> <<>>, status |-> 0,
     body |-> <<>>]

----------------------------------------------------------------------------
(* token.Bearer *)

(* r.Header.Get("Authorization"): the first value, "" when there is none. *)
HeaderGet(r) == IF Len(r.auth) = 0 THEN EmptyValue ELSE r.auth[1]

(* As BearerGet, had the test for an empty group been left out. *)
BearerGet_AllowsEmpty(r) ==
    LET v == HeaderGet(r)
        group == Value(TrimPrefix(v.pre, BearerPrefix), v.tok)
    IN  IF ~HasPrefix(v.pre, BearerPrefix)
        THEN [token |-> EmptyValue, err |-> "bearer token not found"]
        ELSE [token |-> group, err |-> "nil"]

(* Bearer.Get: what follows a leading "Bearer ", an error when the value does
   not start with it or nothing follows. *)
BearerGet(r) ==
    LET v == HeaderGet(r)
        group == Value(TrimPrefix(v.pre, BearerPrefix), v.tok)
    IN  IF ~HasPrefix(v.pre, BearerPrefix) \/ group = EmptyValue
        THEN [token |-> EmptyValue, err |-> "bearer token not found"]
        ELSE [token |-> group, err |-> "nil"]

(* Bearer.Set: r.Header.Add("Authorization", "Bearer "+token) *)
BearerSet(r, tkn) ==
    [r EXCEPT !.auth = Append(r.auth, Value(BearerPrefix, tkn))]

----------------------------------------------------------------------------
(* validator.go *)

UnixSeconds(ms) == ms \div MsPerSecond

(* StandardClaims.Valid of jwt-go v3.2.0: an exp of 0 is no exp, and a token
   is expired when the clock's second is past exp. *)
ClaimsValid(claims) == claims.exp = 0 \/ UnixSeconds(now) <= claims.exp

(* GetPublicKey as the validator calls it. *)
KeyLookup(issuer) ==
    IF issuer \in visible
    THEN [val |-> data[issuer], err |-> "nil"]
    ELSE [val |-> "", err |-> "no data for key"]

(* keyFunc: the key a token is verified with, or the error that rejects it. *)
keyFunc(tkn) ==
    IF ~ClaimsValid(tkn.claims)
    THEN [key |-> "", err |-> "token is expired"]
    ELSE IF tkn.alg # "RS256"
    THEN [key |-> "", err |-> "unexpected signing method"]
    ELSE IF KeyLookup(tkn.claims.iss).err # "nil"
    THEN [key |-> "", err |-> "can't find public key for service"]
    ELSE IF ~ParsesAsPublicKey(KeyLookup(tkn.claims.iss).val)
    THEN [key |-> "", err |-> "invalid key"]
    ELSE [key |-> KeyLookup(tkn.claims.iss).val, err |-> "nil"]

(* jwt.ParseWithClaims(authToken, &TokenClaims{}, keyFunc(...)) *)
ParseWithClaims(authToken) ==
    IF authToken.pre # <<>> \/ authToken.tok.form # "jwt"
    THEN [claims |-> NoClaims, err |-> "token is malformed"]
    ELSE LET tkn == authToken.tok
             k   == keyFunc(tkn)
         IN  IF k.err # "nil"
             THEN [claims |-> tkn.claims, err |-> k.err]
             ELSE IF ~ClaimsValid(tkn.claims)
             THEN [claims |-> tkn.claims, err |-> "token is expired"]
             ELSE IF ~SignatureVerifies(tkn, k.key)
             THEN [claims |-> tkn.claims, err |-> "crypto/rsa: verification error"]
             ELSE [claims |-> tkn.claims, err |-> "nil"]

(* As BindingMismatch, had the method comparison been left out. *)
BindingMismatch_NoMethod(r, claims) ==
    \/ r.path # claims.pth
    \/ claims.sub # Subject

(* r.Method != claims.Method || r.URL.Path != claims.Path ||
   claims.Subject != s.Subject *)
BindingMismatch(r, claims) ==
    \/ r.method # claims.mtd
    \/ r.path # claims.pth
    \/ claims.sub # Subject

(* As handleError, had it answered an expired token with another status. *)
handleError_LeaksExpiry(err) ==
    IF onErrorSet
    THEN [handled |-> TRUE, nextCalls |-> 0, onError |-> <<err>>, status |-> 0,
          body |-> <<>>]
    ELSE [handled |-> TRUE, nextCalls |-> 0, onError |-> <<>>,
          status |-> IF err = "token is expired" THEN 403 ELSE StatusUnauthorized,
          body |-> <<>>]

(* handleError: OnError when there is one, else the 401. *)
handleError(err) ==
    IF onErrorSet
    THEN [handled |-> TRUE, nextCalls |-> 0, onError |-> <<err>>, status |-> 0,
          body |-> <<>>]
    ELSE [handled |-> TRUE, nextCalls |-> 0, onError |-> <<>>,
          status |-> StatusUnauthorized, body |-> <<>>]

(* next.ServeHTTP(rw, r): the downstream handler writes the response. *)
NextServeHTTP ==
    [handled |-> TRUE, nextCalls |-> 1, onError |-> <<>>, status |-> 0,
     body |-> <<"downstream">>]

(* The handler SignedRequestHandler returns, on one request. *)
Handle(r) ==
    LET ext == BearerGet(r)
        parsed == ParseWithClaims(ext.token)
    IN  IF ext.err # "nil" THEN handleError(ext.err)
        ELSE IF parsed.err # "nil" THEN handleError(parsed.err)
        ELSE IF BindingMismatch(r, parsed.claims) THEN handleError(parsed.err)
        ELSE NextServeHTTP

ServeHTTP ==
    /\ ~resp.handled
    /\ resp' = Handle(req)
    /\ UNCHANGED <<kvars, now, signer, onErrorSet, req, signErr, signed>>

----------------------------------------------------------------------------
(* signer.go *)

(* The Signer with its defaults applied: TokenSetter and TTL. *)
WithDefaults(sg) ==
    [sg EXCEPT !.setter = IF sg.setter = "nil" THEN "bearer" ELSE sg.setter,
               !.ttl = IF sg.ttl = 0 THEN 1 * MsPerSecond ELSE sg.ttl]

(* TokenClaims{Method, Path, Issuer, Subject, ExpiresAt} as SignedString
   writes them. *)
ClaimsFor(r, sg, subject) ==
    [mtd |-> JSONString(r.method),
     pth |-> JSONString(r.path),
     iss |-> sg.issuer,
     sub |-> subject,
     exp |-> UnixSeconds(now + sg.ttl)]

(* s.TokenSetter.Set(r, signedTkn): the request afterwards.  The setter
   "failing" is a TokenSetter whose Set embeds nothing and returns an error. *)
TokenSet(sg, r, tkn) == IF sg.setter = "bearer" THEN BearerSet(r, tkn) ELSE r

(* What that Set returns. *)
TokenSetErr(sg) == IF sg.setter = "bearer" THEN "nil" ELSE "set failed"

(* As SignResult, had the token been embedded before the key was checked. *)
SignResult_EmbedsOnError(sg, r, subject) ==
    LET d == WithDefaults(sg)
        signedTkn == SignedString("RS256", ClaimsFor(r, d, subject), d.key)
    IN  IF sg.issuer = <<>> \/ sg.key = "" \/ ~ParsesAsPrivateKey(d.key)
           \/ ~CanSign(d.key)
        THEN [err |-> "invalid key", signer |-> d,
              req |-> TokenSet(d, r, signedTkn), tkn |-> EmptyToken]
        ELSE [err |-> "nil", signer |-> d,
              req |-> TokenSet(d, r, signedTkn), tkn |-> signedTkn]

(* Signer.Sign(r, subject): the error returned, the Signer and the request
   afterwards, and the token made. *)
SignResult(sg, r, subject) ==
    IF sg.issuer = <<>>
    THEN [err |-> "no issuer specified", signer |-> sg, req |-> r,
          tkn |-> EmptyToken]
    ELSE IF sg.key = ""
    THEN [err |-> "np private rsa key specified", signer |-> sg, req |-> r,
          tkn |-> EmptyToken]
    ELSE LET d == WithDefaults(sg)
             signedTkn == SignedString("RS256", ClaimsFor(r, d, subject), d.key)
         IN  IF ~ParsesAsPrivateKey(d.key)
             THEN [err |-> "invalid key", signer |-> d, req |-> r,
                   tkn |-> EmptyToken]
             ELSE IF ~CanSign(d.key)
             THEN [err |-> "crypto/rsa: message too long", signer |-> d,
                   req |-> r, tkn |-> EmptyToken]
             ELSE [err |-> "nil", signer |-> d,
                   req |-> TokenSet(d, r, signedTkn), tkn |-> signedTkn]

Sign(subject) ==
    /\ Len(req.auth) < MaxHeaderValues
    /\ signErr' = SignResult(signer, req, subject).err
    /\ signer' = SignResult(signer, req, subject).signer
    /\ req' = SignResult(signer, req, subject).req
    /\ signed' = IF SignResult(signer, req, subject).err = "nil"
                 THEN [at |-> now, ttl |-> signer'.ttl,
                       tkn |-> SignResult(signer, req, subject).tkn]
                 ELSE signed
    /\ resp' = NoResp
    /\ UNCHANGED <<kvars, now, onErrorSet>>

----------------------------------------------------------------------------
(* The environment of the signer / validator pair *)

(* The token a caller holding priv1 would get for GET /x to service_2. *)
BaseClaims ==
    [mtd |-> "GET", pth |-> "/x", iss |-> <<"a">>, sub |-> Subject,
     exp |-> UnixSeconds(StartTime) + 1]

(* Tokens a client may present: the good one, and it with one thing changed. *)
PresentedTokens ==
    { SignedString("RS256", BaseClaims, "priv1"),
      SignedString("HS256", BaseClaims, "priv1"),
      SignedString("RS256", BaseClaims, "priv2"),
      SignedString("RS256", [BaseClaims EXCEPT !.iss = <<"zed">>], "priv1"),
      SignedString("RS256", [BaseClaims EXCEPT !.iss = <<"b">>], "priv1"),
      SignedString("RS256", [BaseClaims EXCEPT !.sub = "service_3"], "priv1"),
      SignedString("RS256", [BaseClaims EXCEPT !.exp = 0], "priv1"),
      SignedString("RS256", [BaseClaims EXCEPT !.exp = UnixSeconds(StartTime) - 1],
                   "priv1"),
      [SignedString("RS256", BaseClaims, "priv1")
          EXCEPT !.claims = [BaseClaims EXCEPT !.pth = "/y"]],
      GarbageToken }

(* Authorization headers a request may arrive with. *)
PresentedAuth ==
    { <<>>,
      <<Value(<<"Basic", " ">>, GarbageToken)>>,
      <<Value(<<"Bearer">>, EmptyToken)>>,
      <<Value(BearerPrefix, EmptyToken)>> }
    \cup { <<Value(BearerPrefix, t)>> : t \in PresentedTokens }

(* The request's method and path are changed on the way, the token is not. *)
Tamper(m, p) ==
    /\ <<m, p>> # <<req.method, req.path>>
    /\ req' = [req EXCEPT !.method = m, !.path = p]
    /\ resp' = NoResp
    /\ UNCHANGED <<kvars, now, signer, onErrorSet, signErr, signed>>

(* Time passes. *)
Advance(d) ==
    /\ now + d <= StartTime + MaxElapsed
    /\ now' = now + d
    /\ UNCHANGED <<kvars, signer, onErrorSet, req, signErr, signed, resp>>

----------------------------------------------------------------------------

Init ==
    /\ kind \in {"file", "s3"}
    /\ source \in InitSources
    /\ dirOK = TRUE
    /\ changes = 0
    /\ pc = "idle"
    /\ next = <<>>
    /\ tickerC = 0
    /\ ticking = FALSE
    /\ cancelled = FALSE
    /\ runErr = "none"
    /\ files = <<>>
    /\ idx = 1
    /\ newVal = EmptyMap
    /\ data = EmptyMap
    /\ visible = {}
    /\ prev = EmptyMap
    /\ got = NoResult
    /\ refreshed = FALSE
    /\ now = StartTime
    /\ signer = [issuer |-> <<"a">>, key |-> "priv1", ttl |-> 0, setter |-> "nil"]
    /\ onErrorSet = FALSE
    /\ req = [method |-> "GET", path |-> "/x", auth |-> <<>>]
    /\ signErr = "none"
    /\ signed = NoSign
    /\ resp = NoResp

Next ==
    \/ \E cfgOK \in BOOLEAN : Run_start(cfgOK)
    \/ RunStep
    \/ Tick
    \/ Cancel
    \/ \E e \in Entries, v \in {"absent", "unreadable"} \cup Contents : ChangeSource(e, v)
    \/ ChangeDir
    \/ Propagate
    \/ \E i \in Issuers : GetPublicKey(i)

Spec == Init /\ [][Next]_vars

(* The same program under fair scheduling: the goroutine that calls Run is
   started and takes a step whenever it has one to take, the ticker fires, and
   stores reach the reader goroutines. *)
Fairness ==
    /\ WF_vars(\E cfgOK \in BOOLEAN : Run_start(cfgOK))
    /\ WF_vars(RunStep)
    /\ WF_vars(Tick)
    /\ WF_vars(Propagate)

LiveSpec == Init /\ [][Next]_vars /\ Fairness

(* The signer and the validator on one request, over a keychain that has been
   refreshed. *)
Signers ==
    { [issuer |-> <<"a">>, key |-> "priv1", ttl |-> 0, setter |-> "nil"],
      [issuer |-> <<"a">>, key |-> "priv1", ttl |-> 10, setter |-> "nil"],
      [issuer |-> <<"a">>, key |-> "junk", ttl |-> 0, setter |-> "nil"],
      [issuer |-> <<>>, key |-> "priv1", ttl |-> 0, setter |-> "nil"],
      [issuer |-> <<"a">>, key |-> "", ttl |-> 0, setter |-> "nil"],
      [issuer |-> <<"a">>, key |-> ShortKey, ttl |-> 0, setter |-> "nil"],
      [issuer |-> <<"a">>, key |-> "priv1", ttl |-> 0, setter |-> "failing"] }

InstalledKeys == [i \in {<<"a">>, <<"b">>} |-> IF i = <<"a">> THEN "k1" ELSE "k2"]

HTTPInit ==
    /\ kind = "file"
    /\ source = [e \in Entries |-> IF e = EntryB THEN "k2" ELSE "k1"]
    /\ dirOK = TRUE
    /\ changes = 0
    /\ pc = "select"
    /\ next = <<>>
    /\ tickerC = 0
    /\ ticking = TRUE
    /\ cancelled = FALSE
    /\ runErr = "none"
    /\ files = <<>>
    /\ idx = 1
    /\ newVal = EmptyMap
    /\ data = InstalledKeys
    /\ visible = DOMAIN data
    /\ prev = EmptyMap
    /\ got = NoResult
    /\ refreshed = TRUE
    /\ now \in {StartTime, StartTime + 990}
    /\ signer \in Signers
    /\ onErrorSet \in BOOLEAN
    /\ req \in [method : Methods, path : Paths, auth : PresentedAuth]
    /\ signErr = "none"
    /\ signed = NoSign
    /\ resp = NoResp

HTTPNext ==
    \/ \E s \in Subjects : Sign(s)
    \/ \E m \in Methods, p \in Paths : Tamper(m, p)
    \/ \E d \in {500, 1000} : Advance(d)
    \/ ServeHTTP

HTTPSpec == HTTPInit /\ [][HTTPNext]_vars

----------------------------------------------------------------------------
(* Properties of the keychain *)

(* What GetPublicKey answers from a complete mapping m. *)
LookupIn(m, issuer) ==
    IF issuer \in DOMAIN m
    THEN [issuer |-> issuer, val |-> m[issuer], ok |-> TRUE]
    ELSE [issuer |-> issuer, val |-> "", ok |-> FALSE]

Pairs(m) == {<<k, m[k]>> : k \in DOMAIN m}

Running == pc \in {"select", "send", "update"}

(* C1: every GetPublicKey call answers from one complete mapping, the one
   installed before the latest refresh cycle or the one that cycle built. *)
C1_ReadsOneCompleteMapping ==
    [][\A i \in Issuers :
          GetPublicKey(i) => got' \in {LookupIn(prev, i), LookupIn(data, i)}]_vars

(* C2: a refresh cycle that fails leaves the installed mapping as it was, and
   nothing read during a cycle shows before the cycle ends. *)
C2_FailedRefreshKeepsMapping ==
    [][/\ (pc = "update" /\ pc' = "update") => data' = data
       /\ (pc # "returned" /\ pc' = "returned" /\ runErr' \in {"list", "read"})
             => (data' = data /\ prev' = prev)]_vars

C2_Witness ==
    /\ pc = "returned"
    /\ runErr = "read"
    /\ DOMAIN newVal # {}
    /\ {<<"a">>, <<"b">>} \subseteq DOMAIN data
    /\ newVal # data

(* C3: a tick never blocks the loop: when the loop is at `next <- true` the
   channel has room, and at most one refresh request is pending. *)
C3_TickNeverBlocks ==
    /\ Len(next) <= NextCap
    /\ pc = "send" => Len(next) < NextCap

(* C4: once the context is cancelled a running Run can always move on, and
   when it returns it returns nil. *)
C4_CancelReturnsNil ==
    /\ [](cancelled /\ Running => ENABLED RunStep)
    /\ [][(cancelled /\ Running /\ pc' = "returned") => runErr' = "nil"]_vars

(* C5: once the context is cancelled Run starts no refresh cycle. *)
C5_NoRefreshAfterCancel ==
    [][~(cancelled /\ Run_recvNext)]_vars

(* C6: a failing refresh cycle makes Run return that error, and once Run has
   returned nothing it owns changes any more. *)
C6_RefreshErrorIsTerminal ==
    [][/\ (Run_recvNext /\ ~List.ok) => (pc' = "returned" /\ runErr' = "list")
       /\ (update_entry /\ Matches(files[idx]) /\ ReadEntry(files[idx]) = "error")
             => (pc' = "returned" /\ runErr' = "read")
       /\ pc = "returned"
             => (pc' = "returned" /\ runErr' = runErr /\ data' = data
                 /\ visible' = visible /\ next' = next
                 /\ refreshed' = refreshed)]_vars

C6_Witness ==
    /\ pc = "returned"
    /\ runErr \in {"list", "read"}
    /\ tickerC = 1
    /\ DOMAIN data # {}

(* C7: the loop handles no tick before it has run a refresh. *)
C7_RefreshBeforeFirstTick ==
    [][Run_recvTick => refreshed]_vars

(* The Key Source is now as the cycle at its end read it. *)
SourceAsRead ==
    /\ List.ok
    /\ files = List.names
    /\ \A j \in 1..Len(files) :
          Matches(files[j]) =>
             /\ ReadEntry(files[j]) # "error"
             /\ KeyOf(files[j]) \in DOMAIN newVal
             /\ newVal[KeyOf(files[j])] = ReadEntry(files[j])

(* The last path element of a name. *)
Basename(name) ==
    IF \E i \in 1..Len(name) : name[i] = "/"
    THEN LET i == CHOOSE j \in 1..Len(name) :
                      name[j] = "/" /\ \A k \in (j + 1)..Len(name) : name[k] # "/"
         IN  SubSeq(name, i + 1, Len(name))
    ELSE name

(* C8: a successful refresh installs exactly basename-minus-suffix -> bytes
   over the listed entries whose name ends with the suffix. *)
C8_InstalledMappingIsExact ==
    [][(update_install /\ SourceAsRead) =>
          Pairs(data') =
             { <<TrimSuffix(Basename(files[j]), KeySuffix), ReadEntry(files[j])>> :
                  j \in {k \in 1..Len(files) : Matches(files[k])} }]_vars

----------------------------------------------------------------------------
(* Properties of the validator *)

(* The token of the request's first Authorization value, when that value is
   "Bearer " and a compact token. *)
CarriesToken(r) ==
    /\ HeaderGet(r).pre = BearerPrefix
    /\ HeaderGet(r).tok.form = "jwt"

(* The token is an unexpired RS256 token whose signature verifies under the
   key the keychain holds for its issuer. *)
Verified(tkn) ==
    /\ tkn.alg = "RS256"
    /\ tkn.claims.exp = 0 \/ UnixSeconds(now) <= tkn.claims.exp
    /\ tkn.claims.iss \in DOMAIN data
    /\ SignatureVerifies(tkn, data[tkn.claims.iss])

(* C9: the downstream handler runs at most once, never after a rejection, and
   only for a request whose token was extracted and verified and whose claims
   name the request's method and path and the validator's Subject. *)
C9_AcceptsOnlyVerifiedBoundRequests ==
    [][ServeHTTP =>
          /\ resp'.nextCalls <= 1
          /\ (resp'.status # 0 \/ resp'.onError # <<>>) => resp'.nextCalls = 0
          /\ resp'.nextCalls = 1 =>
                /\ CarriesToken(req)
                /\ Verified(HeaderGet(req).tok)
                /\ HeaderGet(req).tok.claims.mtd = req.method
                /\ HeaderGet(req).tok.claims.pth = req.path
                /\ HeaderGet(req).tok.claims.sub = Subject]_vars

(* A request signed by Sign, its method or path changed afterwards, rejected
   although its token still verifies. *)
C9_Witness ==
    /\ signErr = "nil"
    /\ resp.handled
    /\ resp.nextCalls = 0
    /\ CarriesToken(req)
    /\ Verified(HeaderGet(req).tok)
    /\ HeaderGet(req).tok.claims.sub = Subject
    /\ \/ HeaderGet(req).tok.claims.mtd # req.method
       \/ HeaderGet(req).tok.claims.pth # req.path

(* C10: with an OnError handler, a rejection calls it exactly once, with the
   non-nil error that caused the rejection, and writes no status. *)
C10_OnErrorGetsTriggeringError ==
    [][(ServeHTTP /\ onErrorSet /\ resp'.nextCalls = 0) =>
          /\ Len(resp'.onError) = 1
          /\ resp'.onError[1] # "nil"
          /\ resp'.status = 0]_vars

(* The response of the default denial. *)
Denied ==
    [handled |-> TRUE, nextCalls |-> 0, onError |-> <<>>,
     status |-> StatusUnauthorized, body |-> <<>>]

(* C11: with no OnError handler every rejected request gets the same
   response, whichever check failed: status 401, no body, and the downstream
   handler not called. *)
C11_UniformDenial ==
    [][(ServeHTTP /\ ~onErrorSet /\ resp'.nextCalls = 0) => resp' = Denied]_vars

(* A request rejected for its expired token, with no OnError handler. *)
C11_Witness ==
    /\ ~onErrorSet
    /\ resp = Denied
    /\ BearerGet(req).err = "nil"
    /\ ParseWithClaims(BearerGet(req).token).err = "token is expired"

----------------------------------------------------------------------------
(* Properties of the signer and of the signer / validator pair *)

(* The Signer's issuer has its public key in the keychain. *)
IssuerKnown(sg) ==
    /\ sg.issuer \in DOMAIN data
    /\ data[sg.issuer] = PublicOf(sg.key)

(* C12: for every request, one that already has an Authorization value
   included, Sign for the validator's Subject by an issuer the keychain knows,
   followed at once by the middleware, reaches the downstream handler, and Sign
   changes nothing of the request but the token value it adds. *)
C12_SignThenValidateAccepts ==
    [][\A s \in Subjects :
          (Sign(s) /\ signErr' = "nil" /\ s = Subject /\ IssuerKnown(signer')
              /\ signer'.setter = "bearer") =>
             /\ Handle(req').nextCalls = 1
             /\ req'.method = req.method
             /\ req'.path = req.path
             /\ req'.auth = Append(req.auth, Value(BearerPrefix, signed'.tkn))]_vars

(* The request's token is correctly signed by an issuer of the keychain and
   names the request's method and path and the validator's Subject. *)
SignedAndBound(r) ==
    /\ CarriesToken(r)
    /\ HeaderGet(r).tok.alg = "RS256"
    /\ HeaderGet(r).tok.claims.iss \in DOMAIN data
    /\ SignatureVerifies(HeaderGet(r).tok, data[HeaderGet(r).tok.claims.iss])
    /\ ~BindingMismatch(r, HeaderGet(r).tok.claims)

(* C13: a correctly signed token with matching binding is accepted at every
   time strictly before its expiresAt and rejected at every time at or after
   it. *)
C13_ExpiryBoundary ==
    [][(ServeHTTP /\ SignedAndBound(req)) =>
          (resp'.nextCalls = 1 <=>
              now < HeaderGet(req).tok.claims.exp * MsPerSecond)]_vars

(* C14: a well-formed token whose issuer has no entry in the keychain is
   rejected with the error of the failed key lookup. *)
C14_UnknownIssuerError ==
    [][(ServeHTTP /\ CarriesToken(req)
           /\ HeaderGet(req).tok.claims.iss \notin DOMAIN data) =>
          /\ resp'.nextCalls = 0
          /\ ParseWithClaims(BearerGet(req).token).err =
                "can't find public key for service"
          /\ onErrorSet => resp'.onError = <<"can't find public key for service">>]_vars

(* C15: a Sign that returns an error leaves the request as it was. *)
C15_FailedSignLeavesRequest ==
    [][\A s \in Subjects : (Sign(s) /\ signErr' # "nil") => req' = req]_vars

(* Sign has failed on an unparsable private key, for a request that carries
   an Authorization value. *)
C15_Witness ==
    /\ signErr = "invalid key"
    /\ req.auth # <<>>

(* C16: Bearer.Get returns T and no error exactly when the Authorization
   value is "Bearer " followed by a non-empty T, and an error and the empty
   token for every other value. *)
C16_BearerGetMatchesPattern ==
    LET v == HeaderGet(req)
        isBearer == Len(v.pre) >= 2 /\ v.pre[1] = "Bearer" /\ v.pre[2] = " "
        rest == Value(SubSeq(v.pre, 3, Len(v.pre)), v.tok)
    IN  IF isBearer /\ rest # EmptyValue
        THEN BearerGet(req) = [token |-> rest, err |-> "nil"]
        ELSE BearerGet(req) = [token |-> EmptyValue, err |-> "bearer token not found"]

(* The middleware has extracted from a request whose Authorization value is
   "Bearer " followed by nothing. *)
C16_Witness ==
    /\ resp.handled
    /\ HeaderGet(req) = Value(BearerPrefix, EmptyToken)

(* C17: after Bearer.Set(request, T) the Authorization field reads
   "Bearer T" and Bearer.Get returns T, whatever the request held before. *)
C17_GetReturnsLatestSet ==
    [][\A s \in Subjects :
          (Sign(s) /\ signErr' = "nil" /\ signer'.setter = "bearer") =>
             /\ HeaderGet(req') = Value(BearerPrefix, signed'.tkn)
             /\ BearerGet(req') = [token |-> Value(<<>>, signed'.tkn), err |-> "nil"]]_vars

(* C18: when the entry of issuer "a" stays present and readable, no refresh
   fails and Run is not cancelled, then under fair scheduling the keychain
   comes to hold issuer "a" and holds it from then on. *)
C18_KeychainHeals ==
    ([](source[EntryA] \in Contents) /\ []~cancelled /\ [](runErr = "none"))
       => <>[](<<"a">> \in DOMAIN data)

(* C19: a token Sign made at time t with TTL d is not accepted at a time
   later than t + d. *)
C19_AcceptedWithinTTL ==
    [][(ServeHTTP /\ signed # NoSign /\ CarriesToken(req)
           /\ HeaderGet(req).tok = signed.tkn /\ resp'.nextCalls = 1) =>
          now <= signed.at + signed.ttl]_vars

(* C20: Sign returns no error only if the TokenSetter returned none and the
   request carries the token just signed. *)
C20_NilMeansEmbedded ==
    [][\A s \in Subjects :
          (Sign(s) /\ signErr' = "nil") =>
             /\ TokenSetErr(signer') = "nil"
             /\ \E j \in 1..Len(req'.auth) : req'.auth[j].tok = signed'.tkn]_vars

====
